---------------------------- MODULE Spec2Model ----------------------------
(***************************************************************************)
(* Model of hrmonitor.py (class HRMonitor): the validation of the raw rows *)
(* (parse_data / parse_line / repair_line / is_float), the attribute       *)
(* stages run by __init__ (get_voltage_extremes, get_duration,             *)
(* get_peak_interval, get_mean_hr, locate_peaks) and the export.           *)
(*                                                                         *)
(* Numbers.  A Python/numpy float is a record [k, n]: k = "fin" with n the *)
(* value counted in quarters (n = 4 denotes 1.0), k = "inf" with n the     *)
(* sign, or k = "nan".  Quarters make the repair's mean of two raw values  *)
(* with at most one binary digit exact.  Heart rates are counted in units  *)
(* of 10^-5 because the code rounds them to 5 decimals.                    *)
(***************************************************************************)
EXTENDS Integers, Sequences, FiniteSets, TLC

VARIABLES
    data,             \* self.data: the rows read by DataHandler.csvReader
    time_units,       \* self.time_units
    voltage_units,    \* self.voltage_units
    window_size,      \* window_size argument of __init__, in quarters of a second
    pc,               \* position of __init__
    raised,           \* the exception that left __init__, or NoError
    log,              \* the records written to the logger (warnings, errors, repairs)
    time,             \* self.time
    voltage,          \* self.voltage
    voltage_extremes, \* self.voltage_extremes
    duration,         \* self.duration
    peak_interval,    \* self.peak_interval
    interval_loc,     \* self.interval_loc
    mean_hr_bpm,      \* self.mean_hr_bpm
    cwt_peaks,        \* what signal.find_peaks_cwt returned inside locate_peaks
    peaks,            \* self.peaks
    beats,            \* self.beats
    num_beats,        \* self.num_beats
    exported          \* the AnalysisResult written by export_JSON, or Nothing

vars == <<data, time_units, voltage_units, window_size, pc, raised, log, time,
          voltage, voltage_extremes, duration, peak_interval, interval_loc,
          mean_hr_bpm, cwt_peaks, peaks, beats, num_beats, exported>>

-----------------------------------------------------------------------------
(* Floating-point values and the operations the code applies to them.      *)

Fin(n) == [k |-> "fin", n |-> n]
PosInf == [k |-> "inf", n |-> 1]
NegInf == [k |-> "inf", n |-> -1]
NaN == [k |-> "nan", n |-> 0]

IsFinite(x) == x.k = "fin"
IsNaN(x) == x.k = "nan"

Sign(n) == IF n > 0 THEN 1 ELSE IF n < 0 THEN -1 ELSE 0

Abs(n) == IF n < 0 THEN -n ELSE n

\* x + y
FAdd(x, y) ==
    IF IsNaN(x) \/ IsNaN(y) THEN NaN
    ELSE IF IsFinite(x) /\ IsFinite(y) THEN Fin(x.n + y.n)
    ELSE IF IsFinite(x) THEN y
    ELSE IF IsFinite(y) THEN x
    ELSE IF x.n = y.n THEN x ELSE NaN

\* -x
FNeg(x) == IF IsNaN(x) THEN NaN ELSE [k |-> x.k, n |-> -x.n]

\* x - y
FSub(x, y) == FAdd(x, FNeg(y))

\* x / 2
FHalf(x) == IF IsFinite(x) THEN Fin(x.n \div 2) ELSE x

\* x * c for an integer factor c (a units factor)
FScale(x, c) ==
    IF IsNaN(x) THEN NaN
    ELSE IF IsFinite(x) THEN Fin(x.n * c)
    ELSE IF c = 0 THEN NaN
    ELSE [k |-> "inf", n |-> x.n * Sign(c)]

\* abs(x)
FAbs(x) == IF IsNaN(x) THEN NaN ELSE [k |-> x.k, n |-> Abs(x.n)]

\* x < y, x <= y, x >= y: every comparison with nan is False
FLt(x, y) ==
    /\ ~IsNaN(x)
    /\ ~IsNaN(y)
    /\ IF IsFinite(x) /\ IsFinite(y) THEN x.n < y.n
       ELSE IF IsFinite(x) THEN y.n > 0
       ELSE IF IsFinite(y) THEN x.n < 0
       ELSE x.n < y.n

FLe(x, y) == ~IsNaN(x) /\ ~IsNaN(y) /\ (x = y \/ FLt(x, y))

FGe(x, y) == FLe(y, x)

-----------------------------------------------------------------------------
(* Exceptions and log records.                                             *)

NoError == [type |-> "none", msg |-> "", line |-> 0]

Exception(type, msg, line) == [type |-> type, msg |-> msg, line |-> line]

LogRecord(level, msg, line) == [level |-> level, msg |-> msg, line |-> line]

\* an attribute __init__ has not assigned yet is the empty sequence (an array),
\* NoValue (a float), -1 (an integer) or, for the export, Nothing
NoValue == [k |-> "unset", n |-> 0]

Nothing == [set |-> FALSE]

-----------------------------------------------------------------------------
(* RecordValidator: is_float, repair_line, parse_line, parse_data.         *)

ValueError == [k |-> "ValueError", n |-> 0]

\* Python's float(str) on the field spellings the model draws rows from
float(input) ==
    CASE input = "0" -> Fin(0)
      [] input = "0.5" -> Fin(2)
      [] input = "1" -> Fin(4)
      [] input = "2" -> Fin(8)
      [] input = "3" -> Fin(12)
      [] input = "4" -> Fin(16)
      [] input = "5" -> Fin(20)
      [] input = "6" -> Fin(24)
      [] input = "7" -> Fin(28)
      [] input = "-1" -> Fin(-4)
      [] input = "300" -> Fin(1200)
      [] input = "inf" -> PosInf
      [] input = "Infinity" -> PosInf
      [] input = "-inf" -> NegInf
      [] input = "nan" -> NaN
      [] input = "NaN" -> NaN
      [] OTHER -> ValueError

is_float(input) ==
    IF float(input) = ValueError THEN FALSE ELSE ~(input = "NaN")

\* len(line) == 2 and is_float(line[0]) and is_float(line[1])
line_valid(line) == Len(line) = 2 /\ is_float(line[1]) /\ is_float(line[2])

\* the outcome of a call: a returned (time, voltage) or a raised exception,
\* with the records it logged
Returned(t, v, logged) == [exc |-> NoError, t |-> t, v |-> v, logged |-> logged]

Raised(e, logged) == [exc |-> e, t |-> NaN, v |-> NaN, logged |-> logged]

\* mutant: the repair copies the previous row instead of interpolating
repair_line_copies_prev(rows, line_num) ==
    LET warned == <<LogRecord("warning", "Invalid values encountered", line_num + 1)>>
    IN  IF line_num > 0 /\ line_num < Len(rows) - 1
           /\ line_valid(rows[line_num]) /\ line_valid(rows[line_num + 2])
        THEN Returned(float(rows[line_num][1]), float(rows[line_num][2]),
                      warned \o <<LogRecord("info", "Interpolation successfully produced",
                                            line_num + 1)>>)
        ELSE Raised(Exception("RuntimeError", "Interpolated repair failed for line",
                              line_num + 1),
                    warned \o <<LogRecord("error", "Interpolated repair failed for line",
                                          line_num + 1)>>)

\* mutant: a bad last row is filled from the previous row instead of rejected
repair_line_fills_last(rows, line_num) ==
    LET warned == <<LogRecord("warning", "Invalid values encountered", line_num + 1)>>
    IN  IF line_num > 0 /\ line_num = Len(rows) - 1 /\ line_valid(rows[line_num])
        THEN Returned(float(rows[line_num][1]), float(rows[line_num][2]),
                      warned \o <<LogRecord("info", "Interpolation successfully produced",
                                            line_num + 1)>>)
        ELSE IF line_num > 0 /\ line_num < Len(rows) - 1
                /\ line_valid(rows[line_num]) /\ line_valid(rows[line_num + 2])
        THEN Returned(FHalf(FAdd(float(rows[line_num][1]), float(rows[line_num + 2][1]))),
                      FHalf(FAdd(float(rows[line_num][2]), float(rows[line_num + 2][2]))),
                      warned \o <<LogRecord("info", "Interpolation successfully produced",
                                            line_num + 1)>>)
        ELSE Raised(Exception("RuntimeError", "Interpolated repair failed for line",
                              line_num + 1),
                    warned \o <<LogRecord("error", "Interpolated repair failed for line",
                                          line_num + 1)>>)

\* line_num is 0-based as in the code; rows[line_num + 1] is self.data[line_num]
repair_line(rows, line_num) ==
    LET warned == <<LogRecord("warning", "Invalid values encountered", line_num + 1)>>
        prev_line == rows[line_num]
        next_line == rows[line_num + 2]
    IN  IF line_num > 0 /\ line_num < Len(rows) - 1
           /\ line_valid(prev_line) /\ line_valid(next_line)
        THEN Returned(FHalf(FAdd(float(prev_line[1]), float(next_line[1]))),
                      FHalf(FAdd(float(prev_line[2]), float(next_line[2]))),
                      warned \o <<LogRecord("info", "Interpolation successfully produced",
                                            line_num + 1)>>)
        ELSE Raised(Exception("RuntimeError", "Interpolated repair failed for line",
                              line_num + 1),
                    warned \o <<LogRecord("error", "Interpolated repair failed for line",
                                          line_num + 1)>>)

\* mutant: the error names the 0-based row
parse_line_zero_based(rows, line_num) ==
    LET line == rows[line_num + 1]
    IN  IF Len(line) # 2
        THEN Raised(Exception("ValueError", "Too many values on line", line_num),
                    <<LogRecord("error", "Too many values on line", line_num)>>)
        ELSE IF ~is_float(line[1]) \/ ~is_float(line[2])
        THEN repair_line(rows, line_num)
        ELSE Returned(float(line[1]), float(line[2]), <<>>)

parse_line(rows, line_num) ==
    LET line == rows[line_num + 1]
    IN  IF Len(line) # 2
        THEN Raised(Exception("ValueError", "Too many values on line", line_num + 1),
                    <<LogRecord("error", "Too many values on line", line_num + 1)>>)
        ELSE IF ~is_float(line[1]) \/ ~is_float(line[2])
        THEN repair_line(rows, line_num)
        ELSE Returned(float(line[1]), float(line[2]), <<>>)

\* the threshold of the range check in parse_data, in quarters of a mV
RangeLimit == Fin(300 * 4)

\* the for loop of parse_data from row i (0-based) on
RECURSIVE parse_rows(_, _, _, _, _, _)
parse_rows(rows, i, t, v, outside_range, logged) ==
    IF i = Len(rows)
    THEN [exc |-> NoError, t |-> t, v |-> v, outside_range |-> outside_range,
          logged |-> logged]
    ELSE LET r == parse_line(rows, i)
         IN  IF r.exc # NoError
             THEN [exc |-> r.exc, t |-> <<>>, v |-> <<>>, outside_range |-> outside_range,
                   logged |-> logged \o r.logged]
             ELSE parse_rows(rows, i + 1, Append(t, r.t), Append(v, r.v),
                             outside_range \/ FGe(FAbs(r.v), RangeLimit),
                             logged \o r.logged)

ScaleAll(xs, c) == [i \in 1..Len(xs) |-> FScale(xs[i], c)]

\* mutant: the time column is returned unscaled
parse_data_unscaled_time(rows, tu, vu) ==
    IF Len(rows) = 0
    THEN [exc |-> Exception("ValueError", "No data values present", 0),
          t |-> <<>>, v |-> <<>>,
          logged |-> <<LogRecord("error", "No data values present", 0)>>]
    ELSE LET r == parse_rows(rows, 0, <<>>, <<>>, FALSE, <<>>)
         IN  IF r.exc # NoError
             THEN [exc |-> r.exc, t |-> <<>>, v |-> <<>>, logged |-> r.logged]
             ELSE [exc |-> NoError,
                   t |-> r.t,
                   v |-> ScaleAll(r.v, vu),
                   logged |-> r.logged \o
                       (IF r.outside_range
                        THEN <<LogRecord("warning", "Voltage values outside of typical range", 0)>>
                        ELSE <<>>)]

parse_data(rows, tu, vu) ==
    IF Len(rows) = 0
    THEN [exc |-> Exception("ValueError", "No data values present", 0),
          t |-> <<>>, v |-> <<>>,
          logged |-> <<LogRecord("error", "No data values present", 0)>>]
    ELSE LET r == parse_rows(rows, 0, <<>>, <<>>, FALSE, <<>>)
         IN  IF r.exc # NoError
             THEN [exc |-> r.exc, t |-> <<>>, v |-> <<>>, logged |-> r.logged]
             ELSE [exc |-> NoError,
                   t |-> ScaleAll(r.t, tu),
                   v |-> ScaleAll(r.v, vu),
                   logged |-> r.logged \o
                       (IF r.outside_range
                        THEN <<LogRecord("warning", "Voltage values outside of typical range", 0)>>
                        ELSE <<>>)]

-----------------------------------------------------------------------------
(* SignalStatistics: get_voltage_extremes, get_duration.                   *)

\* x * y
FMul(x, y) ==
    IF IsNaN(x) \/ IsNaN(y) THEN NaN
    ELSE IF IsFinite(x) /\ IsFinite(y) THEN Fin(x.n * y.n)
    ELSE IF Sign(x.n) * Sign(y.n) = 0 THEN NaN
    ELSE [k |-> "inf", n |-> Sign(x.n) * Sign(y.n)]

\* Python's builtin min: the first item, replaced by each later item that is < it
RECURSIVE py_min(_, _, _)
py_min(xs, i, m) ==
    IF i > Len(xs) THEN m
    ELSE py_min(xs, i + 1, IF FLt(xs[i], m) THEN xs[i] ELSE m)

\* Python's builtin max: the first item, replaced by each later item that is > it
RECURSIVE py_max(_, _, _)
py_max(xs, i, m) ==
    IF i > Len(xs) THEN m
    ELSE py_max(xs, i + 1, IF FLt(m, xs[i]) THEN xs[i] ELSE m)

get_voltage_extremes(v) == <<py_min(v, 2, v[1]), py_max(v, 2, v[1])>>

get_duration(t) == FSub(t[Len(t)], t[1])

-----------------------------------------------------------------------------
(* PeriodicityEstimator: get_peak_interval.                                *)

\* sum over i of xs[i + lag] * xs[i]: entry lag of the non-negative-lag half
\* of np.correlate(xs, xs, mode='full')
RECURSIVE lag_sum(_, _, _, _)
lag_sum(xs, lag, i, acc) ==
    IF i + lag > Len(xs) THEN acc
    ELSE lag_sum(xs, lag, i + 1, FAdd(acc, FMul(xs[i + lag], xs[i])))

correl(xs) == [j \in 1..Len(xs) |-> lag_sum(xs, j - 1, 2, FMul(xs[j], xs[1]))]

\* np.square(correl), each entry kept as its magnitude: x*x <= y*y exactly when
\* |x| <= |y|, and the code only compares the entries
sq_cor(xs) == [j \in 1..Len(xs) |-> FAbs(correl(xs)[j])]

\* mutant: prev stays sq_cor[0], so a rise below the first entry is run through
RECURSIVE after_peak_from_fixed_prev(_, _, _, _)
after_peak_from_fixed_prev(sq, i, after_peak, prev) ==
    IF i = Len(sq) THEN after_peak
    ELSE IF FLe(sq[i + 1], prev) THEN after_peak_from_fixed_prev(sq, i + 1, i, prev)
    ELSE after_peak

\* the for loop that finds after_peak, from 0-based position i on
RECURSIVE after_peak_from(_, _, _, _)
after_peak_from(sq, i, after_peak, prev) ==
    IF i = Len(sq) THEN after_peak
    ELSE IF FLe(sq[i + 1], prev) THEN after_peak_from(sq, i + 1, i, sq[i + 1])
    ELSE after_peak

\* np.argmax of sq[from:] (0-based, relative to from): the first nan if there
\* is one, else the first position of the greatest entry
RECURSIVE argmax_from(_, _, _, _)
argmax_from(sq, from, i, best) ==
    IF IsNaN(sq[best + 1]) \/ i = Len(sq) THEN best - from
    ELSE IF IsNaN(sq[i + 1]) \/ FLt(sq[best + 1], sq[i + 1])
    THEN argmax_from(sq, from, i + 1, i)
    ELSE argmax_from(sq, from, i + 1, best)

\* get_peak_interval(data) with self.time = t: (interval_val, interval_loc)
get_peak_interval(xs, t) ==
    LET sq == sq_cor(xs)
        after_peak == after_peak_from(sq, 0, 0, sq[1])
        loc == after_peak + argmax_from(sq, after_peak, after_peak + 1, after_peak)
    IN  [interval_val |-> t[loc + 1], interval_loc |-> loc]

-----------------------------------------------------------------------------
(* HeartRateAggregator: get_mean_hr.                                       *)

\* a divided by b > 0, rounded to the nearest integer, ties to even
RoundDiv(a, b) ==
    LET q == a \div b
        r == a % b
    IN  IF 2 * r < b THEN q
        ELSE IF 2 * r > b THEN q + 1
        ELSE IF q % 2 = 0 THEN q ELSE q + 1

\* (60 / int_val).round(5), in units of 10^-5 bpm; int_val is in quarters of a
\* second, so 60 / int_val = 240 / n
heart_rate(int_val) ==
    IF IsNaN(int_val) THEN NaN
    ELSE IF ~IsFinite(int_val) THEN Fin(0)
    ELSE IF int_val.n = 0 THEN PosInf
    ELSE IF int_val.n > 0 THEN Fin(RoundDiv(240 * 100000, int_val.n))
    ELSE Fin(-RoundDiv(240 * 100000, -int_val.n))

Slice(xs, from, to) == [j \in 1..(to - from) |-> xs[from + j]]

\* mutant: a sample exactly window_size past the window's start does not close it
window_closed_strict(t_i, w, prev_time) == FLt(FAdd(w, prev_time), t_i)

\* time >= window_size + prev_time
window_closed(t_i, w, prev_time) == FGe(t_i, FAdd(w, prev_time))

\* the for loop of get_mean_hr from 0-based position i on; intervals are the
\* int_val of the windows closed so far.  np.correlate raises ValueError on an
\* empty slice.
RECURSIVE mean_hr_from(_, _, _, _, _, _, _)
mean_hr_from(t, v, w, i, prev_index, prev_time, intervals) ==
    IF i = Len(t) THEN [exc |-> NoError, intervals |-> intervals]
    ELSE IF window_closed(t[i + 1], w, prev_time)
    THEN IF i = prev_index
         THEN [exc |-> Exception("ValueError", "first array argument cannot be empty", 0),
               intervals |-> intervals]
         ELSE mean_hr_from(t, v, w, i + 1, i, t[i + 1],
                  Append(intervals,
                         get_peak_interval(Slice(v, prev_index, i), t).interval_val))
    ELSE mean_hr_from(t, v, w, i + 1, prev_index, prev_time, intervals)

\* int_val of each window get_mean_hr closes, and the exception if one is raised
mean_hr_windows(t, v, w) == mean_hr_from(t, v, w, 0, 0, t[1], <<>>)

get_mean_hr(t, v, w) ==
    LET r == mean_hr_windows(t, v, w)
    IN  [exc |-> r.exc,
         heart_rates |-> [j \in 1..Len(r.intervals) |-> heart_rate(r.intervals[j])]]

-----------------------------------------------------------------------------
(* BeatLocator: locate_peaks.                                              *)

\* the inner for loop: the first j in range(i, num_peaks) whose peak lies more
\* than thre_width past current_peak, else num_peaks - 1 (0-based)
\* mutant: a peak exactly thre_width past the current one already ends the skip
RECURSIVE next_index_at_threshold(_, _, _, _)
next_index_at_threshold(ps, j, current_peak, thre_width) ==
    IF j = Len(ps) - 1 \/ ps[j + 1] - current_peak >= thre_width THEN j
    ELSE next_index_at_threshold(ps, j + 1, current_peak, thre_width)

RECURSIVE next_index(_, _, _, _)
next_index(ps, j, current_peak, thre_width) ==
    IF j = Len(ps) - 1 \/ ps[j + 1] - current_peak > thre_width THEN j
    ELSE next_index(ps, j + 1, current_peak, thre_width)

\* the while loop from 0-based position i on
RECURSIVE filter_from(_, _, _, _)
filter_from(ps, i, thre_width, filtered_peaks) ==
    IF i < Len(ps) - 1
    THEN filter_from(ps, next_index(ps, i + 1, ps[i + 1], thre_width), thre_width,
                     Append(filtered_peaks, ps[i + 1]))
    ELSE filtered_peaks

\* what locate_peaks returns for the peaks ps that find_peaks_cwt found
filter_peaks(ps, loc) ==
    IF Len(ps) = 0 THEN ps ELSE filter_from(ps, 0, loc \div 4, <<>>)

-----------------------------------------------------------------------------
(* ResultExporter: export_JSON.                                            *)

\* round(x, 3), in thousandths
round3(x) == IF IsFinite(x) THEN Fin(x.n * 250) ELSE x

export_JSON(pi, hr, ex, du, nb, bs) ==
    [set |-> TRUE, peak_interval |-> round3(pi), mean_hr_bpm |-> hr,
     voltage_extremes |-> ex, duration |-> du, num_beats |-> nb, beats |-> bs]

-----------------------------------------------------------------------------
(* HRMonitor.__init__: one action per stage, in the order of the code.     *)

\* the index lists find_peaks_cwt can return for a signal of n samples:
\* sorted, without repeats
RECURSIVE SortedSeq(_)
SortedSeq(S) ==
    IF S = {} THEN <<>>
    ELSE LET m == CHOOSE x \in S : \A y \in S : x <= y
         IN  <<m>> \o SortedSeq(S \ {m})

find_peaks_cwt(n) == {SortedSeq(S) : S \in SUBSET (0..(n - 1))}

\* line 47: (self.time, self.voltage) = self.parse_data(self.data)
ParseData ==
    /\ pc = "parse_data"
    /\ LET r == parse_data(data, time_units, voltage_units)
       IN  /\ log' = log \o r.logged
           /\ raised' = r.exc
           /\ time' = IF r.exc = NoError THEN r.t ELSE time
           /\ voltage' = IF r.exc = NoError THEN r.v ELSE voltage
           /\ pc' = IF r.exc = NoError THEN "get_voltage_extremes" ELSE "raised"
    /\ UNCHANGED <<data, time_units, voltage_units, window_size, voltage_extremes,
                   duration, peak_interval, interval_loc, mean_hr_bpm, cwt_peaks,
                   peaks, beats, num_beats, exported>>

\* line 50
GetVoltageExtremes ==
    /\ pc = "get_voltage_extremes"
    /\ voltage_extremes' = get_voltage_extremes(voltage)
    /\ pc' = "get_duration"
    /\ UNCHANGED <<data, time_units, voltage_units, window_size, raised, log, time,
                   voltage, duration, peak_interval, interval_loc, mean_hr_bpm,
                   cwt_peaks, peaks, beats, num_beats, exported>>

\* line 51
GetDuration ==
    /\ pc = "get_duration"
    /\ duration' = get_duration(time)
    /\ pc' = "get_peak_interval"
    /\ UNCHANGED <<data, time_units, voltage_units, window_size, raised, log, time,
                   voltage, voltage_extremes, peak_interval, interval_loc,
                   mean_hr_bpm, cwt_peaks, peaks, beats, num_beats, exported>>

\* line 54
GetPeakInterval ==
    /\ pc = "get_peak_interval"
    /\ LET r == get_peak_interval(voltage, time)
       IN  /\ peak_interval' = r.interval_val
           /\ interval_loc' = r.interval_loc
    /\ pc' = "get_mean_hr"
    /\ UNCHANGED <<data, time_units, voltage_units, window_size, raised, log, time,
                   voltage, voltage_extremes, duration, mean_hr_bpm, cwt_peaks,
                   peaks, beats, num_beats, exported>>

\* line 57
GetMeanHr ==
    /\ pc = "get_mean_hr"
    /\ LET r == get_mean_hr(time, voltage, Fin(window_size))
       IN  /\ raised' = r.exc
           /\ mean_hr_bpm' = IF r.exc = NoError THEN r.heart_rates ELSE mean_hr_bpm
           /\ pc' = IF r.exc = NoError THEN "locate_peaks" ELSE "raised"
    /\ UNCHANGED <<data, time_units, voltage_units, window_size, log, time, voltage,
                   voltage_extremes, duration, peak_interval, interval_loc,
                   cwt_peaks, peaks, beats, num_beats, exported>>

\* line 60
LocatePeaks ==
    /\ pc = "locate_peaks"
    /\ \E found \in find_peaks_cwt(Len(voltage)) :
          /\ cwt_peaks' = found
          /\ peaks' = filter_peaks(found, interval_loc)
          /\ log' = IF Len(found) = 0
                    THEN Append(log, LogRecord("warning", "No peaks located", 0))
                    ELSE log
    /\ pc' = "beats"
    /\ UNCHANGED <<data, time_units, voltage_units, window_size, raised, time, voltage,
                   voltage_extremes, duration, peak_interval, interval_loc,
                   mean_hr_bpm, beats, num_beats, exported>>

\* lines 61-64
Beats ==
    /\ pc = "beats"
    /\ beats' = IF Len(peaks) > 0 THEN [j \in 1..Len(peaks) |-> time[peaks[j] + 1]]
                ELSE <<>>
    /\ num_beats' = Len(beats')
    /\ pc' = "export_JSON"
    /\ UNCHANGED <<data, time_units, voltage_units, window_size, raised, log, time,
                   voltage, voltage_extremes, duration, peak_interval, interval_loc,
                   mean_hr_bpm, cwt_peaks, peaks, exported>>

\* line 67
ExportJSON ==
    /\ pc = "export_JSON"
    /\ exported' = export_JSON(peak_interval, mean_hr_bpm, voltage_extremes, duration,
                               num_beats, beats)
    /\ pc' = "done"
    /\ UNCHANGED <<data, time_units, voltage_units, window_size, raised, log, time,
                   voltage, voltage_extremes, duration, peak_interval, interval_loc,
                   mean_hr_bpm, cwt_peaks, peaks, beats, num_beats>>

-----------------------------------------------------------------------------
(* Inputs.                                                                 *)

SeqsUpTo(S, n) == UNION {[1..m -> S] : m \in 0..n}

Pairs(Ts, Vs) == {<<t, v>> : t \in Ts, v \in Vs}

\* rows with one field and with three fields, as csvReader's split(',') gives
WrongCountRows == {<<"1">>, <<"1", "2", "3">>}

\* the object when __init__ reaches line 47 with the rows and the arguments given
Constructed(rows, tu, vu, w) ==
    /\ data = rows
    /\ time_units = tu
    /\ voltage_units = vu
    /\ window_size = w
    /\ pc = "parse_data"
    /\ raised = NoError
    /\ log = <<>>
    /\ time = <<>>
    /\ voltage = <<>>
    /\ voltage_extremes = <<>>
    /\ duration = NoValue
    /\ peak_interval = NoValue
    /\ interval_loc = -1
    /\ mean_hr_bpm = <<>>
    /\ cwt_peaks = <<>>
    /\ peaks = <<>>
    /\ beats = <<>>
    /\ num_beats = -1
    /\ exported = Nothing

\* --- the whole pipeline
MaxSamples == 3

SampleRows == Pairs({"0", "1", "inf"}, {"0", "1", "300", "abc"}) \cup WrongCountRows

Init ==
    \E rows \in SeqsUpTo(SampleRows, MaxSamples), w \in {4, 8} :
        Constructed(rows, 1, 1, w)

Next ==
    \/ ParseData
    \/ GetVoltageExtremes
    \/ GetDuration
    \/ GetPeakInterval
    \/ GetMeanHr
    \/ LocatePeaks
    \/ Beats
    \/ ExportJSON

Spec == Init /\ [][Next]_vars

\* --- validation alone, over rows with unparseable, NaN, nan and inf fields
MaxRows == 4

RawRows == Pairs({"0", "2", "abc"}, {"0.5", "300", "NaN", "nan"}) \cup WrongCountRows

InitValidate ==
    \E rows \in SeqsUpTo(RawRows, MaxRows), vu \in {1, 1000} :
        Constructed(rows, 2, vu, 40)

SpecValidate == InitValidate /\ [][ParseData]_vars

\* --- the stages up to get_mean_hr, over numeric rows
MaxSignal == 4

SignalRows == Pairs({"0", "1", "2", "3"}, {"0", "1"})

InitRates ==
    \E rows \in SeqsUpTo(SignalRows, MaxSignal), w \in {4, 8} :
        Constructed(rows, 1, 1, w)

NextRates ==
    \/ ParseData
    \/ GetVoltageExtremes
    \/ GetDuration
    \/ GetPeakInterval
    \/ GetMeanHr

SpecRates == InitRates /\ [][NextRates]_vars

\* --- locate_peaks alone: a signal of PeakSignalLen samples, any interval_loc
\* within it, any result of find_peaks_cwt
PeakSignalLen == 12

InitPeaks ==
    \E loc \in 0..(PeakSignalLen - 1) :
        /\ data = [j \in 1..PeakSignalLen |-> <<"0", "0">>]
        /\ time_units = 1
        /\ voltage_units = 1
        /\ window_size = 40
        /\ pc = "locate_peaks"
        /\ raised = NoError
        /\ log = <<>>
        /\ time = [j \in 1..PeakSignalLen |-> Fin(0)]
        /\ voltage = [j \in 1..PeakSignalLen |-> Fin(0)]
        /\ voltage_extremes = <<Fin(0), Fin(0)>>
        /\ duration = Fin(0)
        /\ peak_interval = Fin(0)
        /\ interval_loc = loc
        /\ mean_hr_bpm = <<>>
        /\ cwt_peaks = <<>>
        /\ peaks = <<>>
        /\ beats = <<>>
        /\ num_beats = -1
        /\ exported = Nothing

SpecPeaks == InitPeaks /\ [][LocatePeaks]_vars

\* --- the stages up to get_peak_interval, over files of up to MaxLags rows
\* sampled one second apart from 1.0 on, the voltages positive, zero or negative
MaxLags == 6

SecondStamps == <<"1", "2", "3", "4", "5", "6", "7">>

LevelSpellings == {"-1", "0", "1", "2"}

InitInterval ==
    \E n \in 1..MaxLags :
        \E vs \in [1..n -> LevelSpellings] :
            Constructed([j \in 1..n |-> <<SecondStamps[j], vs[j]>>], 1, 1, 40)

NextInterval ==
    \/ ParseData
    \/ GetVoltageExtremes
    \/ GetDuration
    \/ GetPeakInterval

SpecInterval == InitInterval /\ [][NextInterval]_vars

-----------------------------------------------------------------------------
(* Vocabulary of the properties.                                           *)

\* spellings of finite numbers
FiniteNumerals == {"0", "0.5", "1", "2", "3", "4", "5", "6", "7", "-1", "300"}

\* spellings Python's float() converts: the finite ones, the infinities, nan
FloatSpellings == FiniteNumerals \cup {"inf", "Infinity", "-inf", "nan", "NaN"}

\* a field that is not a number, or is the token 'NaN'
BadField(f) == f \notin FloatSpellings \/ f = "NaN"

\* a row of two fields with a bad value
BadValueRow(row) == Len(row) = 2 /\ (BadField(row[1]) \/ BadField(row[2]))

\* a row of two well-formed (finite) numeric fields
WellFormedRow(row) ==
    Len(row) = 2 /\ row[1] \in FiniteNumerals /\ row[2] \in FiniteNumerals

\* a row of two fields that validation takes as they are
AcceptedRow(row) == Len(row) = 2 /\ ~BadField(row[1]) /\ ~BadField(row[2])

\* parse_data returned a Signal (never an empty one)
Validated == pc # "parse_data" /\ time # <<>>

\* parse_data raised and returned no Signal
ValidationFailed == pc = "raised" /\ time = <<>> /\ voltage = <<>>

\* interior rows (1-based) with a bad value between two well-formed rows
FlankedBadRows ==
    {i \in 2..(Len(data) - 1) :
        BadValueRow(data[i]) /\ WellFormedRow(data[i - 1]) /\ WellFormedRow(data[i + 1])}

-----------------------------------------------------------------------------
(* C1: an interior row with a bad value between two well-formed rows does  *)
(* not make validation fail on that row, and the Signal holds at its       *)
(* position the mean of the neighbours' raw times and the mean of their    *)
(* raw voltages, scaled by time_units and voltage_units; the rows taken as *)
(* they are keep their position and their scaled raw values.               *)
C1_InteriorRepairIsNeighbourMean ==
    pc # "parse_data" =>
        \A i \in FlankedBadRows :
            /\ ~(raised.type # "none" /\ raised.line = i)
            /\ Validated =>
                /\ Len(time) = Len(data) /\ Len(voltage) = Len(data)
                /\ IsFinite(time[i]) /\ IsFinite(voltage[i])
                /\ 2 * time[i].n =
                       (float(data[i - 1][1]).n + float(data[i + 1][1]).n) * time_units
                /\ 2 * voltage[i].n =
                       (float(data[i - 1][2]).n + float(data[i + 1][2]).n) * voltage_units
                /\ \A j \in 1..Len(data) :
                       AcceptedRow(data[j]) =>
                           /\ time[j] = FScale(float(data[j][1]), time_units)
                           /\ voltage[j] = FScale(float(data[j][2]), voltage_units)

\* a validated three-row input whose middle row has a bad voltage and whose
\* neighbours differ in time and in voltage
C1_Witness ==
    /\ Validated
    /\ Len(data) = 3
    /\ 2 \in FlankedBadRows
    /\ data[1] # data[3]
    /\ data[1][1] # data[3][1]
    /\ data[1][2] # data[3][2]

-----------------------------------------------------------------------------
\* rows (1-based) whose field count is not two
WrongCountIndexes == {i \in 1..Len(data) : Len(data[i]) # 2}

Least(S) == CHOOSE x \in S : \A y \in S : x <= y

\* a bad-valued row the repair can fill: interior, both neighbours accepted
Repairable(i) ==
    /\ i \in 2..(Len(data) - 1)
    /\ AcceptedRow(data[i - 1])
    /\ AcceptedRow(data[i + 1])

\* bad-valued rows before row f that the repair cannot fill
UnrepairableBefore(f) ==
    {j \in 1..(f - 1) : BadValueRow(data[j]) /\ ~Repairable(j)}

(* C2 as stated: whenever some row has a field count other than two,       *)
(* validation fails with ValueError 'Too many values on line N', N the     *)
(* 1-based number of such a row, whatever the other rows hold.             *)
C2_WrongCountAlwaysMalformedError ==
    (pc # "parse_data" /\ WrongCountIndexes # {}) =>
        /\ raised.type = "ValueError"
        /\ raised.msg = "Too many values on line"
        /\ raised.line \in WrongCountIndexes

(* C2 amended: when some row has a field count other than two, validation  *)
(* fails and returns no Signal; it fails with ValueError 'Too many values  *)
(* on line N', N the number of the first such row, when every bad-valued   *)
(* row before it can be repaired, and otherwise with RuntimeError          *)
(* 'Interpolated repair failed for line M', M the first bad-valued row     *)
(* before it that cannot be repaired.                                      *)
C2_FirstFailingRowDecidesError ==
    (pc # "parse_data" /\ WrongCountIndexes # {}) =>
        LET f == Least(WrongCountIndexes)
        IN  /\ ValidationFailed
            /\ IF UnrepairableBefore(f) = {}
               THEN raised = Exception("ValueError", "Too many values on line", f)
               ELSE raised = Exception("RuntimeError", "Interpolated repair failed for line",
                                       Least(UnrepairableBefore(f)))

\* a bad-valued row was repaired and a later row with three fields stopped
\* the validation
C2_Witness ==
    /\ ValidationFailed
    /\ Len(data) > 0
    /\ raised.type = "ValueError"
    /\ raised.line = Len(data)
    /\ Len(data[Len(data)]) = 3
    /\ \E j \in 1..Len(data) : BadValueRow(data[j])

-----------------------------------------------------------------------------
\* rows (1-based) with two fields and a bad value
BadValueIndexes == {i \in 1..Len(data) : BadValueRow(data[i])}

(* C3: when every row has two fields and the first or the last row has a   *)
(* bad value, validation fails with RuntimeError 'Interpolated repair      *)
(* failed for line N' and returns no Signal; when that row is the only row *)
(* with a bad value, N is its 1-based number.  The single row of a one-row *)
(* input is first and last.                                                *)
C3_BoundaryBadRowIsUnrepairable ==
    (/\ pc # "parse_data"
     /\ Len(data) > 0
     /\ WrongCountIndexes = {}
     /\ (BadValueRow(data[1]) \/ BadValueRow(data[Len(data)]))) =>
        /\ ValidationFailed
        /\ raised.type = "RuntimeError"
        /\ raised.msg = "Interpolated repair failed for line"
        /\ raised.line \in BadValueIndexes
        /\ Cardinality(BadValueIndexes) = 1 => raised.line = Least(BadValueIndexes)

\* an input of several rows whose only bad value is in its last row
C3_Witness ==
    /\ ValidationFailed
    /\ Len(data) > 1
    /\ WrongCountIndexes = {}
    /\ BadValueIndexes = {Len(data)}
    /\ raised.line = Len(data)

-----------------------------------------------------------------------------
\* the out-of-range advisory of parse_data
RangeAdvisory == LogRecord("warning", "Voltage values outside of typical range", 0)

Logged(rec) == \E j \in 1..Len(log) : log[j] = rec

(* C9 as stated: whenever a validated sample's voltage, after the          *)
(* multiplication by voltage_units, has a magnitude of 300 mV or more, the *)
(* out-of-range advisory is recorded, and validation still returns the     *)
(* Signal.                                                                 *)
C9_AdvisoryForScaledVoltage ==
    Validated =>
        ((\E i \in 1..Len(voltage) : FGe(FAbs(voltage[i]), Fin(300 * 4)))
            => Logged(RangeAdvisory))

(* C10 as stated: every sample of a Signal that validation returns has a   *)
(* finite time and a finite voltage.                                       *)
C10_SignalIsFinite ==
    Validated =>
        \A i \in 1..Len(time) : IsFinite(time[i]) /\ IsFinite(voltage[i])

-----------------------------------------------------------------------------
\* the advisory of locate_peaks
NoPeaksAdvisory == LogRecord("warning", "No peaks located", 0)

\* __init__ has returned or raised
Ended == pc \in {"done", "raised"}

\* no attribute after the Signal has been assigned
NoLaterStageRan ==
    /\ voltage_extremes = <<>>
    /\ duration = NoValue
    /\ peak_interval = NoValue
    /\ interval_loc = -1
    /\ mean_hr_bpm = <<>>
    /\ cwt_peaks = <<>>
    /\ peaks = <<>>
    /\ beats = <<>>
    /\ num_beats = -1

(* C4 as stated: when validation ends in a fatal condition no later stage  *)
(* runs and nothing is exported; a run in which an advisory was recorded   *)
(* is not stopped and ends with the export.                                *)
C4_FatalAbortsAdvisoryContinues ==
    /\ ValidationFailed => (NoLaterStageRan /\ exported = Nothing)
    /\ (Ended /\ (Logged(RangeAdvisory) \/ Logged(NoPeaksAdvisory)))
           => exported # Nothing

(* C4, the part about fatal conditions alone: it holds of the model.       *)
C4_FatalAbortsPipeline ==
    /\ ValidationFailed => (NoLaterStageRan /\ exported = Nothing)
    /\ exported # Nothing => (pc = "done" /\ Validated /\ raised = NoError)

-----------------------------------------------------------------------------
\* the threshold of the de-duplication
ThreWidth == interval_loc \div 4

\* the greedy selection: the first candidate, then each candidate more than
\* T past the one kept last
RECURSIVE GreedyFrom(_, _, _, _)
GreedyFrom(ps, i, T, kept) ==
    IF i > Len(ps) THEN kept
    ELSE IF ps[i] - kept[Len(kept)] > T THEN GreedyFrom(ps, i + 1, T, Append(kept, ps[i]))
    ELSE GreedyFrom(ps, i + 1, T, kept)

GreedySelection(ps, T) == IF Len(ps) = 0 THEN <<>> ELSE GreedyFrom(ps, 2, T, <<ps[1]>>)

Range(f) == {f[j] : j \in 1..Len(f)}

(* C5 as stated: locate_peaks returns exactly the greedy selection of the  *)
(* candidates with threshold interval_loc // 4; a non-empty candidate list *)
(* gives a non-empty result that starts with the first candidate.          *)
C5_DedupIsGreedySelection ==
    pc = "beats" => peaks = GreedySelection(cwt_peaks, ThreWidth)

(* C6: the peaks locate_peaks returns are a strictly increasing            *)
(* subsequence of the candidates, and consecutive kept peaks differ by     *)
(* more than interval_loc // 4.                                            *)
C6_KeptPeaksAreSpaced ==
    pc = "beats" =>
        /\ Range(peaks) \subseteq Range(cwt_peaks)
        /\ \A a \in 1..(Len(peaks) - 1) :
               /\ peaks[a] < peaks[a + 1]
               /\ peaks[a + 1] - peaks[a] > ThreWidth

\* several peaks were kept and several candidates dropped, with a threshold
\* of two samples or more
C6_Witness ==
    /\ pc = "beats"
    /\ ThreWidth >= 2
    /\ Len(peaks) >= 3
    /\ Len(cwt_peaks) >= Len(peaks) + 3

-----------------------------------------------------------------------------
\* get_mean_hr has returned
RatesComputed == pc = "locate_peaks"

NonDecreasing(t) == \A i \in 1..(Len(t) - 1) : FLe(t[i], t[i + 1])

\* duration is n whole windows and a sample lies on each window boundary
SamplesOnBoundaries(n) ==
    /\ duration.n = n * window_size
    /\ \A j \in 1..n : \E i \in 1..Len(time) : time[i].n = time[1].n + j * window_size

-----------------------------------------------------------------------------
\* the factors time_units is multiplied by
ScaleFactors == {2, 3}

\* the Signal of a second run with time_units multiplied by k
Rerun(k) == parse_data(data, time_units * k, voltage_units)

\* the int_val of the windows of this run
WindowIntervals == mean_hr_windows(time, voltage, Fin(window_size)).intervals

\* x is y / k up to the rounding of both to 5 decimals
InverselyScaled(x, y, k) ==
    IF IsFinite(x) /\ IsFinite(y) THEN Abs(k * x.n - y.n) <= k ELSE x = y

IntervalEstimated == pc = "get_mean_hr"

\* 0-based last index of the initial non-increasing run of sq: no entry up to
\* it exceeds its predecessor, and the next entry, if there is one, does
InitialRunEnd(sq) ==
    CHOOSE m \in 0..(Len(sq) - 1) :
        /\ \A i \in 1..m : sq[i + 1].n <= sq[i].n
        /\ m = Len(sq) - 1 \/ sq[m + 2].n > sq[m + 1].n

NeverIncreases(sq) == \A i \in 1..(Len(sq) - 1) : sq[i + 1].n <= sq[i].n

\* what C11 says of one call: xs the voltages passed, t self.time, after_peak
\* the loop's result, r the pair returned
EstimateAsStated(xs, t, after_peak, r) ==
    LET sq == sq_cor(xs)
        last == Len(xs) - 1
        SearchRange == after_peak..last
    IN  /\ after_peak = InitialRunEnd(sq)
        /\ SearchRange # {}
        /\ r.interval_loc \in SearchRange
        /\ \A j \in SearchRange : sq[j + 1].n <= sq[r.interval_loc + 1].n
        /\ r.interval_val = t[r.interval_loc + 1]
        /\ NeverIncreases(sq) =>
               /\ r.interval_loc = last
               /\ r.interval_val = t[last + 1]

\* the voltages are one constant but for a single sample
OneSpike(xs) ==
    \E s \in 1..Len(xs) :
        /\ \A j \in 1..Len(xs) : j # s => xs[j] = Fin(0)
        /\ xs[s] # Fin(0)

(* C11: for every non-empty voltage sequence passed to get_peak_interval,  *)
(* the whole signal or a window of it, after_peak is the last index of the *)
(* initial non-increasing run of the squared autocorrelation, the argmax   *)
(* range from after_peak on is not empty, interval_loc lies between        *)
(* after_peak and the last index and indexes a maximum of that range, and  *)
(* the interval returned is self.time at interval_loc; when the squared    *)
(* autocorrelation never increases, interval_loc is the last index, so a   *)
(* constant signal with one spike whose last time is 6.0 has               *)
(* peak_interval 6.0.                                                      *)
C11_IntervalIsMaximumAfterInitialRun ==
    IntervalEstimated =>
        /\ EstimateAsStated(voltage, time,
                            after_peak_from(sq_cor(voltage), 0, 0, sq_cor(voltage)[1]),
                            [interval_val |-> peak_interval,
                             interval_loc |-> interval_loc])
        /\ \A from \in 0..(Len(voltage) - 1) :
               \A to \in (from + 1)..Len(voltage) :
                   LET window == Slice(voltage, from, to)
                   IN  EstimateAsStated(window, time,
                                        after_peak_from(sq_cor(window), 0, 0,
                                                        sq_cor(window)[1]),
                                        get_peak_interval(window, time))
        /\ OneSpike(voltage) /\ time[Len(time)] = Fin(6 * 4) =>
               peak_interval = Fin(6 * 4)

\* the fixture: six samples, one of them a spike, the last time 6.0, and
\* get_peak_interval has returned the last index and 6.0
C11_Witness ==
    /\ IntervalEstimated
    /\ Len(voltage) = 6
    /\ OneSpike(voltage)
    /\ time[Len(time)] = Fin(6 * 4)
    /\ interval_loc = 5
    /\ peak_interval = Fin(6 * 4)

\* a signal whose squared autocorrelation falls, then rises to a maximum
\* that is not the last entry
C11_RiseAfterRun ==
    /\ IntervalEstimated
    /\ InitialRunEnd(sq_cor(voltage)) < interval_loc
    /\ interval_loc < Len(voltage) - 1

==========================================================================
